---------------------------- MODULE Spec2Model ----------------------------
(***************************************************************************)
(* A model of three pieces of the verification service:                    *)
(*   - verification/src/settings.rs: Settings::new and Settings::validate, *)
(*   - smart-contract-verifier/.../vyper/multi_part.rs: the conversion of  *)
(*     MultiFileContent into CompilerInput and the facade `verify`,        *)
(*   - verification/tests/server.rs: the server_start scenario.            *)
(* Option<T> is a sequence: None is <<>>, Some(x) is <<x>>.                *)
(* Result<T, E> is a record [ok |-> BOOLEAN, val |-> ..., err |-> ...].    *)
(***************************************************************************)
EXTENDS Integers, Sequences, FiniteSets, TLC

VARIABLES
    \* ---- Settings::new (settings.rs) ----
    env,            \* the process environment and configuration file
    spc,            \* position inside Settings::new
    builder,        \* the sources added to the config builder, in order
    settings,       \* the deserialized Settings value (<<>> before line 154)
    newResult,      \* what Settings::new returned (<<>> while running)
    validateCalls,  \* number of times validate ran inside this call
    \* ---- the facade verify (vyper/multi_part.rs) ----
    request,        \* the VerificationRequest the facade was called with
    client,         \* the Client: its compilers and its optional middleware
    fpc,            \* position inside verify
    compiler_input, \* the local `compiler_input` (<<>> before line 53)
    verifier,       \* the local `verifier` (<<>> before line 60)
    success,        \* the local `success` (<<>> before line 64)
    result,         \* what verify returned (<<>> while running)
    mwCalls,        \* the calls made to the middleware, in order
    compilerRuns,   \* number of times the compiler binary was invoked
    \* ---- the HTTP server of tests/server.rs ----
    srvSettings,    \* the Settings run_http_server was given
    srvStatus,      \* "down", "up" or "failed"
    histogram,      \* the label sets of the request-duration histogram
    responses       \* what the clients got back, in order

svars == <<env, spc, builder, settings, newResult, validateCalls>>
fvars == <<request, client, fpc, compiler_input, verifier, success, result,
           mwCalls, compilerRuns>>
hvars == <<srvSettings, srvStatus, histogram, responses>>
vars == <<svars, fvars, hvars>>

None == <<>>
Some(x) == <<x>>
IsNone(o) == o = <<>>
IsSome(o) == o # <<>>
Unwrap(o) == o[1]

Ok(v) == [ok |-> TRUE, val |-> v, err |-> ""]
Err(e) == [ok |-> FALSE, val |-> <<>>, err |-> e]

(***************************************************************************)
(* settings.rs                                                             *)
(***************************************************************************)

\* consts::DEFAULT_COMPILER_LIST, used by ListFetcherSettings::default; the
\* URL it holds is read by no modelled operation and is kept opaque
DEFAULT_COMPILER_LIST == "consts::DEFAULT_COMPILER_LIST"

\* impl Default for ListFetcherSettings
DefaultListFetcherSettings == [list_url |-> DEFAULT_COMPILER_LIST]

\* enum FetcherSettings { List(ListFetcherSettings), S3(S3FetcherSettings) }
List(l) == [kind |-> "List", list |-> l, s3 |-> <<>>]
S3(s) == [kind |-> "S3", list |-> <<>>, s3 |-> s]

\* impl Default for FetcherSettings
DefaultFetcherSettings == List(DefaultListFetcherSettings)

\* impl Default for ServerSettings
DefaultServerSettings == [addr |-> "0.0.0.0:8043"]

\* impl Default for MetricsSettings
DefaultMetricsSettings == [endpoint |-> "/metrics", addr |-> "0.0.0.0:6060"]

\* impl Default for SoliditySettings (compilers_dir and the schedule are not
\* read by any modelled operation and are kept as opaque defaults)
DefaultSoliditySettings ==
    [enabled |-> TRUE, fetcher |-> DefaultFetcherSettings]

\* impl Default for SourcifySettings
DefaultSourcifySettings ==
    [enabled |-> TRUE, verification_attempts |-> 3, request_timeout |-> 10]

\* #[derive(Default)] for Settings
DefaultSettings ==
    [server |-> DefaultServerSettings,
     solidity |-> DefaultSoliditySettings,
     sourcify |-> DefaultSourcifySettings,
     metrics |-> DefaultMetricsSettings]

\* The message of the anyhow! error of validate (line 165); the source
\* sets the two field names in backquotes
S3_VALIDATION_MESSAGE ==
    "for s3 fetcher settings at least one of region or endpoint should be defined"

\* The values an Option<String> key of a source may carry; "" is a key that
\* is present with an empty value
StringValues == {"", "us-east-1"}
OptStrings == {None} \cup {Some(s) : s \in StringValues}

\* The `solidity.fetcher.s3` table of one configuration source.  bucket is a
\* plain String in S3FetcherSettings (no serde default): the key may be missing
\* in a source.
S3Tables == [region : OptStrings, endpoint : OptStrings,
             bucket : {None, Some("compilers")}]

\* One configuration source (the file, or the VERIFICATION__ environment):
\* which tables of `solidity.fetcher` it holds, and `solidity.enabled`.
RawSources ==
    [list : {None, Some(DefaultListFetcherSettings)},
     s3 : {None} \cup {Some(t) : t \in S3Tables},
     enabled : {None, Some(FALSE)}]

EmptySource == [list |-> None, s3 |-> None, enabled |-> None]

\* A later source overrides an earlier one key by key (config crate)
Over(a, b) == IF IsSome(b) THEN b ELSE a

MergeS3(a, b) ==
    IF IsNone(a) THEN b
    ELSE IF IsNone(b) THEN a
    ELSE Some([region |-> Over(Unwrap(a).region, Unwrap(b).region),
               endpoint |-> Over(Unwrap(a).endpoint, Unwrap(b).endpoint),
               bucket |-> Over(Unwrap(a).bucket, Unwrap(b).bucket)])

MergeSource(a, b) ==
    [list |-> Over(a.list, b.list),
     s3 |-> MergeS3(a.s3, b.s3),
     enabled |-> Over(a.enabled, b.enabled)]

RECURSIVE MergeAll(_)
MergeAll(srcs) ==
    IF srcs = <<>> THEN EmptySource
    ELSE MergeSource(MergeAll(SubSeq(srcs, 1, Len(srcs) - 1)), srcs[Len(srcs)])

\* try_deserialize into Settings: #[serde(default, deny_unknown_fields)] on
\* the structs, an externally tagged enum for FetcherSettings
Deserialize(raw, unknownKey) ==
    IF unknownKey THEN Err("unknown field")
    ELSE IF IsSome(raw.list) /\ IsSome(raw.s3) THEN Err("expected exactly one fetcher variant")
    ELSE IF IsSome(raw.s3) /\ IsNone(Unwrap(raw.s3).bucket) THEN Err("missing field bucket")
    ELSE Ok([DefaultSettings EXCEPT
                !.solidity.enabled =
                    IF IsSome(raw.enabled) THEN Unwrap(raw.enabled) ELSE @,
                !.solidity.fetcher =
                    IF IsSome(raw.s3)
                    THEN S3([region |-> Unwrap(raw.s3).region,
                             endpoint |-> Unwrap(raw.s3).endpoint,
                             bucket |-> Unwrap(Unwrap(raw.s3).bucket)])
                    ELSE IF IsSome(raw.list) THEN List(Unwrap(raw.list))
                    ELSE @])

\* Settings::validate with the `&&` of line 164 turned into `||`
ValidateEitherMissing(s) ==
    IF s.solidity.fetcher.kind = "S3"
       /\ (IsNone(s.solidity.fetcher.s3.region) \/ IsNone(s.solidity.fetcher.s3.endpoint))
    THEN Err(S3_VALIDATION_MESSAGE)
    ELSE Ok(<<>>)

\* Settings::validate with the test of line 163 applied to the List variant too
ValidateAnyFetcher(s) ==
    IF s.solidity.fetcher.kind = "List"
       \/ (IsNone(s.solidity.fetcher.s3.region) /\ IsNone(s.solidity.fetcher.s3.endpoint))
    THEN Err(S3_VALIDATION_MESSAGE)
    ELSE Ok(<<>>)

\* Settings::validate
Validate(s) ==
    IF s.solidity.fetcher.kind = "S3"
       /\ IsNone(s.solidity.fetcher.s3.region)
       /\ IsNone(s.solidity.fetcher.s3.endpoint)
    THEN Err(S3_VALIDATION_MESSAGE)
    ELSE Ok(<<>>)

\* The environments Settings::new may run in: VERIFICATION__CONFIG unset, or
\* naming a file that is missing or present; the file's keys; the keys of the
\* VERIFICATION__ environment variables; whether some source holds a key no
\* struct declares.
ConfigPaths == {None, Some("missing.toml"), Some("config.toml")}

Envs ==
    {e \in [config_path : ConfigPaths, file : RawSources, vars : RawSources,
            unknown_key : BOOLEAN] :
        e.config_path # Some("config.toml") => e.file = EmptySource}

\* No server was started
ServerIdle ==
    /\ srvSettings = None
    /\ srvStatus = "down"
    /\ histogram = {}
    /\ responses = <<>>

\* The facade before any request arrives
FacadeIdle ==
    /\ request = None
    /\ client = None
    /\ fpc = "idle"
    /\ compiler_input = None
    /\ verifier = None
    /\ success = None
    /\ result = None
    /\ mwCalls = <<>>
    /\ compilerRuns = 0

SettingsInit ==
    /\ env \in Envs
    /\ spc = "start"
    /\ builder = <<>>
    /\ settings = None
    /\ newResult = None
    /\ validateCalls = 0
    /\ FacadeIdle
    /\ ServerIdle

\* lines 144-152: the file source (if VERIFICATION__CONFIG is set), then the
\* environment source
AddSources ==
    /\ spc = "start"
    /\ builder' = (IF IsSome(env.config_path)
                   THEN <<[file |-> Unwrap(env.config_path)]>>
                   ELSE <<>>) \o <<[environment |-> "VERIFICATION"]>>
    /\ spc' = "build"
    /\ UNCHANGED <<env, settings, newResult, validateCalls>>
    /\ UNCHANGED <<fvars, hvars>>

\* What builder.build() collects from one source
Collect(src) ==
    IF "file" \in DOMAIN src THEN env.file ELSE env.vars

\* line 154: builder.build()?.try_deserialize()?
BuildResult ==
    IF \E i \in 1..Len(builder) :
          "file" \in DOMAIN builder[i] /\ builder[i].file = "missing.toml"
    THEN Err("configuration file not found")
    ELSE Deserialize(MergeAll([i \in 1..Len(builder) |-> Collect(builder[i])]),
                     env.unknown_key)

Build ==
    /\ spc = "build"
    /\ IF BuildResult.ok
       THEN /\ settings' = Some(BuildResult.val)
            /\ spc' = "validate"
            /\ UNCHANGED newResult
       ELSE /\ newResult' = Some(Err(BuildResult.err))
            /\ spc' = "done"
            /\ UNCHANGED settings
    /\ UNCHANGED <<env, builder, validateCalls>>
    /\ UNCHANGED <<fvars, hvars>>

\* line 156: settings.validate()?
RunValidate ==
    /\ spc = "validate"
    /\ validateCalls' = validateCalls + 1
    /\ IF Validate(Unwrap(settings)).ok
       THEN /\ spc' = "return"
            /\ UNCHANGED newResult
       ELSE /\ newResult' = Some(Err(Validate(Unwrap(settings)).err))
            /\ spc' = "done"
    /\ UNCHANGED <<env, builder, settings>>
    /\ UNCHANGED <<fvars, hvars>>

\* line 158: Ok(settings)
ReturnSettings ==
    /\ spc = "return"
    /\ newResult' = Some(Ok(Unwrap(settings)))
    /\ spc' = "done"
    /\ UNCHANGED <<env, builder, settings, validateCalls>>
    /\ UNCHANGED <<fvars, hvars>>

SettingsNext == AddSources \/ Build \/ RunValidate \/ ReturnSettings

SpecSettings == SettingsInit /\ [][SettingsNext]_vars

(***************************************************************************)
(* Claims about settings.rs, checked under SpecSettings                    *)
(***************************************************************************)

\* The fetcher of settings value s is the S3 variant with neither region nor
\* endpoint
S3WithoutRegionAndEndpoint(s) ==
    /\ s.solidity.fetcher.kind = "S3"
    /\ s.solidity.fetcher.s3.region = None
    /\ s.solidity.fetcher.s3.endpoint = None

\* The fetcher of settings value s is the S3 variant with region or endpoint
S3WithRegionOrEndpoint(s) ==
    /\ s.solidity.fetcher.kind = "S3"
    /\ (s.solidity.fetcher.s3.region # None \/ s.solidity.fetcher.s3.endpoint # None)

\* C1: an S3 fetcher configuration with neither region nor endpoint makes
\* validate fail with the message naming both fields and makes Settings::new
\* return that error; an S3 configuration with at least one of them passes
\* validation and is returned; no value returned by Settings::new is an S3
\* configuration lacking both.
C1_S3ValidatedAtLoad ==
    /\ (IsSome(settings) /\ S3WithoutRegionAndEndpoint(Unwrap(settings))) =>
          /\ Validate(Unwrap(settings)) = Err(S3_VALIDATION_MESSAGE)
          /\ spc \notin {"return"}
          /\ spc = "done" => newResult = Some(Err(S3_VALIDATION_MESSAGE))
    /\ (IsSome(settings) /\ S3WithRegionOrEndpoint(Unwrap(settings))) =>
          /\ Validate(Unwrap(settings)).ok
          /\ spc = "done" => newResult = Some(Ok(Unwrap(settings)))
    /\ (IsSome(newResult) /\ Unwrap(newResult).ok) =>
          /\ ~S3WithoutRegionAndEndpoint(Unwrap(newResult).val)
          /\ validateCalls = 1

\* C1 witness: Settings::new has returned the validation error for an S3
\* configuration with neither field
C1_Witness ==
    /\ spc = "done"
    /\ IsSome(settings)
    /\ S3WithoutRegionAndEndpoint(Unwrap(settings))
    /\ validateCalls = 1
    /\ newResult = Some(Err(S3_VALIDATION_MESSAGE))

\* C10: validate rejects exactly the S3 configurations with neither region nor
\* endpoint; every List configuration passes whatever `solidity.enabled` is, the
\* default Settings pass, and the value Settings::new returns is the value that
\* was deserialized (validate changed nothing).
C10_ValidateRejectsOnlyBareS3 ==
    /\ Validate(DefaultSettings).ok
    /\ DefaultSettings.solidity.fetcher = List([list_url |-> DEFAULT_COMPILER_LIST])
    /\ IsSome(settings) =>
          /\ Validate(Unwrap(settings)).ok <=> ~S3WithoutRegionAndEndpoint(Unwrap(settings))
          /\ Unwrap(settings).solidity.fetcher.kind = "List" => Validate(Unwrap(settings)).ok
          /\ spc = "done" =>
                /\ Unwrap(newResult).ok <=> ~S3WithoutRegionAndEndpoint(Unwrap(settings))
                /\ Unwrap(newResult).ok => Unwrap(newResult).val = BuildResult.val
          /\ spc \in {"validate", "return", "done"} => Unwrap(settings) = BuildResult.val

\* C10 witness: a List configuration with solidity disabled went through
\* validate and was returned unchanged
C10_Witness ==
    /\ spc = "done"
    /\ IsSome(settings)
    /\ Unwrap(settings).solidity.fetcher.kind = "List"
    /\ ~Unwrap(settings).solidity.enabled
    /\ validateCalls = 1
    /\ newResult = Some(Ok(Unwrap(settings)))

(***************************************************************************)
(* vyper/multi_part.rs: the data of a request                              *)
(***************************************************************************)

\* Bound of the request data: the number of paths a request may use
MaxFiles == 2

\* PathBuf keys, ordered as BTreeMap orders them
Paths == 1..MaxFiles
\* Source texts: the compiler reports diagnostics for the empty text and
\* compiles each of the others to its own code
Texts == {"", "contract A", "contract B"}
CodeOf(text) == IF text = "contract A" THEN 1 ELSE 2
Codes == {CodeOf(t) : t \in Texts \ {""}}

\* A BTreeMap is the sequence of its <<key, value>> entries in ascending key
\* order, which is the order into_iter yields them in.
Keys(m) == {m[i][1] : i \in 1..Len(m)}
Get(m, k) == (CHOOSE e \in {m[i] : i \in 1..Len(m)} : e[1] = k)[2]
IntoIter(m) == m

\* BTreeMap::insert: the entry replaces one with the same key, and is placed
\* in key order
BTreeInsert(m, k, v) ==
    LET below == SelectSeq(m, LAMBDA e : e[1] < k)
        above == SelectSeq(m, LAMBDA e : e[1] > k)
    IN below \o <<(<<k, v>>)>> \o above

\* Iterator::collect into a BTreeMap: inserts the items one by one
RECURSIVE Collect_BTreeMap(_)
Collect_BTreeMap(items) ==
    IF items = <<>> THEN <<>>
    ELSE BTreeInsert(Collect_BTreeMap(SubSeq(items, 1, Len(items) - 1)),
                     items[Len(items)][1], items[Len(items)][2])

\* Iterator::map
MapIter(items, F(_)) == [i \in 1..Len(items) |-> F(items[i])]

\* Every BTreeMap<PathBuf, String> over Paths and Texts
RECURSIVE MapsOver(_)
MapsOver(ps) ==
    IF ps = {} THEN {<<>>}
    ELSE LET p == CHOOSE x \in ps : \A y \in ps : y <= x
             rest == MapsOver(ps \ {p})
         IN rest \cup {m \o <<(<<p, t>>)>> : m \in rest, t \in Texts}

SourceMaps == MapsOver(Paths)

\* Option<EvmVersion>
EvmVersions == {None, Some("istanbul")}

\* struct MultiFileContent
MultiFileContents == [sources : SourceMaps, evm_version : EvmVersions]

\* Bytes: a sequence.  Compiled runtime bytecode is <<code, metadata hash>>;
\* creation bytecode is the same followed by the constructor arguments.
EmptyBytes == <<>>
MetaHashes == Paths
DeployedBytecodes == {EmptyBytes} \cup {<<c, h>> : c \in Codes, h \in MetaHashes}
ConstructorArgs == {<<>>, <<9>>}
CreationBytecodes ==
    {None} \cup {Some(<<c, 1>> \o a) : c \in Codes, a \in ConstructorArgs}

\* compiler::Version: already parsed (line 17); version 1 is installed,
\* version 2 is known to no fetcher
Versions == {1, 2}

ChainIds == {None, Some("1"), Some("5")}

\* struct VerificationRequest
VerificationRequests ==
    [deployed_bytecode : DeployedBytecodes,
     creation_bytecode : CreationBytecodes,
     compiler_version : Versions,
     content : MultiFileContents,
     chain_id : ChainIds]

(***************************************************************************)
(* impl From<MultiFileContent> for CompilerInput                           *)
(***************************************************************************)

\* ethers_solc::artifacts::Settings::default(): the optimizer is set
\* (disabled, 200 runs) and an EVM version is chosen
EthersSettingsDefault ==
    [optimizer |-> [enabled |-> Some(FALSE), runs |-> Some(200)],
     evm_version |-> Some("london")]

\* Source::new
SourceNew(content) == [content |-> content]

\* lines 34-37 without the two optimizer assignments
InputSettingsKeepOptimizer(content) ==
    [EthersSettingsDefault EXCEPT !.evm_version = content.evm_version]

\* lines 34-37
InputSettings(content) ==
    [EthersSettingsDefault EXCEPT
        !.optimizer.enabled = None,
        !.optimizer.runs = None,
        !.evm_version = content.evm_version]

\* lines 39-43 with the sources that hold an empty text left out
InputSourcesSkipEmpty(content) ==
    Collect_BTreeMap(
        MapIter(SelectSeq(IntoIter(content.sources), LAMBDA e : e[2] # ""),
                LAMBDA e : <<e[1], SourceNew(e[2])>>))

\* lines 39-43
InputSources(content) ==
    Collect_BTreeMap(
        MapIter(IntoIter(content.sources), LAMBDA e : <<e[1], SourceNew(e[2])>>))

\* lines 33-49
CompilerInputFrom(content) ==
    [language |-> "Vyper",
     sources |-> InputSources(content),
     settings |-> InputSettings(content)]

(***************************************************************************)
(* The collaborators of the facade: Client, the compiler manager,          *)
(* ContractVerifier and the middleware.  Their code is outside the files   *)
(* modelled here; they follow sections 4.4, 4.5, 4.6 and 7 of the design.  *)
(***************************************************************************)

\* The compiler manager: the versions it can hand out, and whether its
\* fetcher can be reached
CompilerManagers == [known : {{1}}, reachable : BOOLEAN]

\* Client: client.compilers() and client.middleware()
Clients == [compilers : CompilerManagers, middleware : {None, Some("middleware")}]

\* Compiler Manager: compiler_for(version) -> handle | Error
CompilerFor(compilers, version) ==
    IF version \in compilers.known THEN Ok(version)
    ELSE IF ~compilers.reachable THEN Err("FetchUnavailable")
    ELSE Err("VersionNotFound")

\* ContractVerifier::new: rejects an empty deployed bytecode; chain_id is kept
\* for the metrics only, as the empty string when absent (lines 21-23)
ContractVerifierNew(compilers, version, creation, deployed, chain_id) ==
    IF deployed = EmptyBytes THEN Err("InvalidRequest")
    ELSE Ok([compilers |-> compilers,
             version |-> version,
             creation_bytecode |-> creation,
             deployed_bytecode |-> deployed,
             chain_id |-> IF IsSome(chain_id) THEN Unwrap(chain_id) ELSE ""])

\* The compiler binary on a CompilerInput: diagnostics if a source does not
\* compile, else one contract per source, in source order; the metadata hash of
\* a contract depends on its path
CompilerRun(input) ==
    IF \E i \in 1..Len(input.sources) : input.sources[i][2].content = ""
    THEN Err("CompilationFailed")
    ELSE Ok([i \in 1..Len(input.sources) |->
                [name |-> input.sources[i][1],
                 bytecode |-> <<CodeOf(input.sources[i][2].content),
                               input.sources[i][1]>>]])

\* The grade at which one compiled contract matches: "Full", "Partial" or ""
MatchGrade(contract, creation, deployed) ==
    IF IsSome(creation) /\ Unwrap(creation)[1] # contract.bytecode[1] THEN ""
    ELSE IF deployed = contract.bytecode THEN "Full"
    ELSE IF deployed[1] = contract.bytecode[1] THEN "Partial"
    ELSE ""

\* The first contract, in order, of the best grade reached (<<>> if none)
BestMatch(contracts, creation, deployed) ==
    LET at(g) == {i \in 1..Len(contracts) :
                     MatchGrade(contracts[i], creation, deployed) = g}
        first(S) == CHOOSE i \in S : \A j \in S : i <= j
    IN IF at("Full") # {} THEN Some(first(at("Full")))
       ELSE IF at("Partial") # {} THEN Some(first(at("Partial")))
       ELSE None

\* ContractVerifier::verify, steps 1 to 6 of section 4.5
ContractVerifierVerify(v, input) ==
    LET handle == CompilerFor(v.compilers, v.version)
        output == CompilerRun(input)
        best == BestMatch(output.val, v.creation_bytecode, v.deployed_bytecode)
        chosen == output.val[Unwrap(best)]
    IN IF ~handle.ok THEN Err(handle.err)
       ELSE IF ~output.ok THEN Err(output.err)
       ELSE IF IsNone(best) THEN Err("NoMatchingContracts")
       ELSE Ok([contract |-> chosen.name,
                bytecode |-> chosen.bytecode,
                compiler_version |-> v.version,
                match |-> MatchGrade(chosen, v.creation_bytecode, v.deployed_bytecode),
                constructor_args |->
                    IF IsSome(v.creation_bytecode)
                    THEN SubSeq(Unwrap(v.creation_bytecode), 3,
                                Len(Unwrap(v.creation_bytecode)))
                    ELSE <<>>])

\* Whether ContractVerifier::verify gets as far as running the compiler
CompilerInvoked(v) == CompilerFor(v.compilers, v.version).ok

\* What a middleware call may report once it completes
MiddlewareOutcomes == {"ok", "failed"}

(***************************************************************************)
(* pub async fn verify(client, request)                                    *)
(***************************************************************************)

SettingsIdle ==
    /\ env = None
    /\ spc = "idle"
    /\ builder = <<>>
    /\ settings = None
    /\ newResult = None
    /\ validateCalls = 0

FacadeInit ==
    /\ SettingsIdle
    /\ ServerIdle
    /\ request \in VerificationRequests
    /\ client \in Clients
    /\ fpc = "input"
    /\ compiler_input = None
    /\ verifier = None
    /\ success = None
    /\ result = None
    /\ mwCalls = <<>>
    /\ compilerRuns = 0

\* line 53
FacadeBuildInput ==
    /\ fpc = "input"
    /\ compiler_input' = Some(CompilerInputFrom(request.content))
    /\ fpc' = "new"
    /\ UNCHANGED <<request, client, verifier, success, result, mwCalls, compilerRuns>>
    /\ UNCHANGED <<svars, hvars>>

\* lines 54-60 with a request that carries no chain_id turned down
NewVerifierRequiresChainId(c, r) ==
    IF IsNone(r.chain_id) THEN Err("InvalidRequest")
    ELSE ContractVerifierNew(c.compilers, r.compiler_version, r.creation_bytecode,
                             r.deployed_bytecode, r.chain_id)

\* lines 54-60: the call of ContractVerifier::new with its five arguments
NewVerifier(c, r) ==
    ContractVerifierNew(c.compilers, r.compiler_version, r.creation_bytecode,
                        r.deployed_bytecode, r.chain_id)

\* lines 54-60 with the error of ContractVerifier::new replaced by a general one
FacadeNewMapsError ==
    /\ fpc = "new"
    /\ IF NewVerifier(client, request).ok
       THEN /\ verifier' = Some(NewVerifier(client, request).val)
            /\ fpc' = "verify"
            /\ UNCHANGED result
       ELSE /\ result' = Some(Err("Internal"))
            /\ fpc' = "done"
            /\ UNCHANGED verifier
    /\ UNCHANGED <<request, client, compiler_input, success, mwCalls, compilerRuns>>
    /\ UNCHANGED <<svars, hvars>>

\* lines 54-60: the `?` returns the error of ContractVerifier::new
FacadeNew ==
    /\ fpc = "new"
    /\ IF NewVerifier(client, request).ok
       THEN /\ verifier' = Some(NewVerifier(client, request).val)
            /\ fpc' = "verify"
            /\ UNCHANGED result
       ELSE /\ result' = Some(Err(NewVerifier(client, request).err))
            /\ fpc' = "done"
            /\ UNCHANGED verifier
    /\ UNCHANGED <<request, client, compiler_input, success, mwCalls, compilerRuns>>
    /\ UNCHANGED <<svars, hvars>>

\* line 64 with the middleware told about a failed verification as well
FacadeVerifyNotifiesFailure ==
    /\ fpc = "verify"
    /\ LET r == ContractVerifierVerify(Unwrap(verifier), Unwrap(compiler_input))
       IN /\ compilerRuns' = compilerRuns
                             + (IF CompilerInvoked(Unwrap(verifier)) THEN 1 ELSE 0)
          /\ IF r.ok
             THEN /\ success' = Some(r.val)
                  /\ fpc' = "middleware"
                  /\ UNCHANGED <<result, mwCalls>>
             ELSE /\ result' = Some(Err(r.err))
                  /\ fpc' = "done"
                  /\ mwCalls' = IF IsSome(client.middleware)
                                THEN Append(mwCalls, [payload |-> <<>>,
                                                      completed |-> TRUE,
                                                      outcome |-> "ok"])
                                ELSE mwCalls
                  /\ UNCHANGED success
    /\ UNCHANGED <<request, client, compiler_input, verifier>>
    /\ UNCHANGED <<svars, hvars>>

\* line 64: verifier.verify(&compiler_input).await?
FacadeVerify ==
    /\ fpc = "verify"
    /\ LET r == ContractVerifierVerify(Unwrap(verifier), Unwrap(compiler_input))
       IN /\ compilerRuns' = compilerRuns
                             + (IF CompilerInvoked(Unwrap(verifier)) THEN 1 ELSE 0)
          /\ IF r.ok
             THEN /\ success' = Some(r.val)
                  /\ fpc' = "middleware"
                  /\ UNCHANGED result
             ELSE /\ result' = Some(Err(r.err))
                  /\ fpc' = "done"
                  /\ UNCHANGED success
    /\ UNCHANGED <<request, client, compiler_input, verifier, mwCalls>>
    /\ UNCHANGED <<svars, hvars>>

\* lines 65-66 with the call started and not awaited
FacadeMiddlewareNotAwaited ==
    /\ fpc = "middleware"
    /\ mwCalls' = IF IsSome(client.middleware)
                  THEN Append(mwCalls, [payload |-> Unwrap(success),
                                        completed |-> FALSE,
                                        outcome |-> ""])
                  ELSE mwCalls
    /\ fpc' = "return"
    /\ UNCHANGED <<request, client, compiler_input, verifier, success, result, compilerRuns>>
    /\ UNCHANGED <<svars, hvars>>

\* lines 65-66: the middleware, if there is one, is called with &success
FacadeMiddleware ==
    /\ fpc = "middleware"
    /\ IF IsSome(client.middleware)
       THEN /\ mwCalls' = Append(mwCalls, [payload |-> Unwrap(success),
                                           completed |-> FALSE,
                                           outcome |-> ""])
            /\ fpc' = "middleware_await"
       ELSE /\ fpc' = "return"
            /\ UNCHANGED mwCalls
    /\ UNCHANGED <<request, client, compiler_input, verifier, success, result, compilerRuns>>
    /\ UNCHANGED <<svars, hvars>>

\* line 66: the awaited call completes; whatever it reports is dropped, and
\* `success` was lent immutably
MiddlewareCompletes ==
    /\ fpc = "middleware_await"
    /\ \E o \in MiddlewareOutcomes :
          mwCalls' = [mwCalls EXCEPT ![Len(mwCalls)] =
                         [@ EXCEPT !.completed = TRUE, !.outcome = o]]
    /\ fpc' = "return"
    /\ UNCHANGED <<request, client, compiler_input, verifier, success, result, compilerRuns>>
    /\ UNCHANGED <<svars, hvars>>

\* line 68 with a failure reported by the middleware returned as the error
FacadeReturnFailsWithMiddleware ==
    /\ fpc = "return"
    /\ result' = IF mwCalls # <<>> /\ mwCalls[Len(mwCalls)].outcome = "failed"
                 THEN Some(Err("MiddlewareFailed"))
                 ELSE Some(Ok(Unwrap(success)))
    /\ fpc' = "done"
    /\ UNCHANGED <<request, client, compiler_input, verifier, success, mwCalls, compilerRuns>>
    /\ UNCHANGED <<svars, hvars>>

\* line 68: Ok(success)
FacadeReturn ==
    /\ fpc = "return"
    /\ result' = Some(Ok(Unwrap(success)))
    /\ fpc' = "done"
    /\ UNCHANGED <<request, client, compiler_input, verifier, success, mwCalls, compilerRuns>>
    /\ UNCHANGED <<svars, hvars>>

\* lines 52-69 as a function of the client and the request: what verify
\* returns when it runs to its end
FacadeOutcome(c, r) ==
    LET input == CompilerInputFrom(r.content)
        new == NewVerifier(c, r)
        verified == ContractVerifierVerify(new.val, input)
    IN IF ~new.ok THEN Err(new.err)
       ELSE IF ~verified.ok THEN Err(verified.err)
       ELSE Ok(verified.val)

FacadeNext ==
    \/ FacadeBuildInput
    \/ FacadeNew
    \/ FacadeVerify
    \/ FacadeMiddleware
    \/ MiddlewareCompletes
    \/ FacadeReturn

SpecFacade == FacadeInit /\ [][FacadeNext]_vars

(***************************************************************************)
(* Claims about the facade, checked under SpecFacade                       *)
(***************************************************************************)

\* What the two calls of the facade return for the request of this run
NewReturned == NewVerifier(client, request)
VerifyReturned == ContractVerifierVerify(Unwrap(verifier), Unwrap(compiler_input))

\* C2: the middleware is called only after ContractVerifier::new and
\* ContractVerifier::verify both returned success; when either returned an
\* error the middleware is not called for the request.
C2_MiddlewareOnlyAfterMatch ==
    /\ mwCalls # <<>> =>
          /\ NewReturned.ok
          /\ IsSome(verifier)
          /\ VerifyReturned.ok
          /\ IsSome(success)
    /\ (fpc # "input" /\ ~NewReturned.ok) => mwCalls = <<>>
    /\ (IsSome(verifier) /\ IsSome(compiler_input) /\ ~VerifyReturned.ok) => mwCalls = <<>>
    /\ (IsSome(result) /\ ~Unwrap(result).ok) => mwCalls = <<>>

\* C2 witness: a request whose verification failed in ContractVerifier::verify
\* has been answered, with a middleware configured, and the middleware was not
\* called
C2_Witness ==
    /\ fpc = "done"
    /\ IsSome(client.middleware)
    /\ IsSome(verifier)
    /\ ~VerifyReturned.ok
    /\ mwCalls = <<>>

\* C3: when ContractVerifier::verify returned Success S the facade returns
\* Ok(S) with the same payload, with or without a middleware and whatever the
\* middleware call reported; the middleware does not change S.
C3_MiddlewareFailureNotPropagated ==
    /\ IsSome(success) => Unwrap(success) = VerifyReturned.val
    /\ (fpc = "done" /\ IsSome(verifier) /\ VerifyReturned.ok) =>
          result = Some(Ok(VerifyReturned.val))
    /\ (fpc = "done" /\ IsSome(success)) => result = Some(Ok(Unwrap(success)))

\* C3 witness: the middleware call reported a failure and the facade returned
\* the Success of ContractVerifier::verify
C3_Witness ==
    /\ fpc = "done"
    /\ Len(mwCalls) = 1
    /\ mwCalls[1].outcome = "failed"
    /\ result = Some(Ok(VerifyReturned.val))

\* C4: with a middleware configured a successful verification calls it exactly
\* once, with the Success of the request, after the compiler ran, and the
\* result is returned only once that call has completed; without a middleware
\* the Success is returned with no call made.
C4_MiddlewareOncePerSuccess ==
    /\ Len(mwCalls) <= 1
    /\ mwCalls # <<>> =>
          /\ IsSome(client.middleware)
          /\ compilerRuns = 1
          /\ mwCalls[1].payload = VerifyReturned.val
          /\ fpc \in {"middleware_await", "return", "done"}
          /\ fpc = "middleware_await" <=> ~mwCalls[1].completed
    /\ (IsSome(client.middleware) /\ IsSome(success) /\ fpc \in {"return", "done"}) =>
          /\ Len(mwCalls) = 1
          /\ mwCalls[1].completed
    /\ (IsSome(result) /\ Unwrap(result).ok /\ IsSome(client.middleware)) =>
          /\ Len(mwCalls) = 1
          /\ mwCalls[1].completed
          /\ mwCalls[1].payload = Unwrap(result).val
    /\ IsNone(client.middleware) =>
          /\ mwCalls = <<>>
          /\ (fpc = "done" /\ IsSome(success)) => result = Some(Ok(Unwrap(success)))

\* C4 witness: a successful request was answered after its one middleware
\* call completed
C4_Witness ==
    /\ fpc = "done"
    /\ IsSome(client.middleware)
    /\ Len(mwCalls) = 1
    /\ mwCalls[1].completed
    /\ result = Some(Ok(mwCalls[1].payload))

\* C5: an error of ContractVerifier::new is what the facade returns, and the
\* compiler is not invoked for the request; an error of ContractVerifier::verify
\* is what the facade returns; the facade returns Ok only when both succeeded.
C5_ErrorsPropagated ==
    /\ (fpc # "input" /\ ~NewReturned.ok) =>
          /\ compilerRuns = 0
          /\ IsNone(verifier)
          /\ fpc = "done" => result = Some(Err(NewReturned.err))
    /\ (IsSome(verifier) /\ IsSome(compiler_input) /\ ~VerifyReturned.ok) =>
          /\ IsNone(success)
          /\ fpc = "done" => result = Some(Err(VerifyReturned.err))
    /\ (IsSome(result) /\ Unwrap(result).ok) =>
          /\ NewReturned.ok
          /\ VerifyReturned.ok
    /\ fpc = "done" => IsSome(result)

\* C5 witness: ContractVerifier::new turned the request down and the facade
\* returned its error without the compiler having run
C5_Witness ==
    /\ fpc = "done"
    /\ ~NewReturned.ok
    /\ result = Some(Err("InvalidRequest"))
    /\ compilerRuns = 0

\* C6: the settings of the CompilerInput built from a MultiFileContent have the
\* optimizer unset (enabled and runs are None) and the EVM version of the
\* content (None included), the language is "Vyper", and the settings are those
\* built from a content with the same EVM version and no sources.
C6_FixedSettingsBlock ==
    IsSome(compiler_input) =>
        /\ Unwrap(compiler_input).language = "Vyper"
        /\ Unwrap(compiler_input).settings.optimizer.enabled = None
        /\ Unwrap(compiler_input).settings.optimizer.runs = None
        /\ Unwrap(compiler_input).settings.evm_version = request.content.evm_version
        /\ Unwrap(compiler_input).settings =
              CompilerInputFrom([sources |-> <<>>,
                                 evm_version |-> request.content.evm_version]).settings

\* C6 witness: an input was built from a content with sources and no EVM version
C6_Witness ==
    /\ IsSome(compiler_input)
    /\ request.content.evm_version = None
    /\ Len(request.content.sources) = MaxFiles
    /\ Unwrap(compiler_input).settings.evm_version = None

\* C7: requests that differ only in chain_id (absent or present) get the same
\* compiler input and the same result from the facade on the same client.
C7_ChainIdNotFunctional ==
    \A c \in ChainIds :
        /\ IsSome(compiler_input) =>
              Unwrap(compiler_input) = CompilerInputFrom([request EXCEPT !.chain_id = c].content)
        /\ fpc = "done" =>
              Unwrap(result) = FacadeOutcome(client, [request EXCEPT !.chain_id = c])

\* C7 witness: a request without chain_id was verified successfully
C7_Witness ==
    /\ fpc = "done"
    /\ request.chain_id = None
    /\ Unwrap(result).ok

\* C9: the sources of the CompilerInput have the paths of the input mapping,
\* none added, dropped or merged, each with the input text of its path, in the
\* iteration order of the input mapping (ascending paths).
C9_SourcesPreserved ==
    IsSome(compiler_input) =>
        LET in == request.content.sources
            out == Unwrap(compiler_input).sources
        IN /\ Keys(out) = Keys(in)
           /\ Len(out) = Len(in)
           /\ \A k \in Keys(in) : Get(out, k) = [content |-> Get(in, k)]
           /\ \A i \in 1..Len(out) : out[i][1] = in[i][1]
           /\ \A i, j \in 1..Len(out) : i < j => out[i][1] < out[j][1]

\* C9 witness: an input was built from MaxFiles sources, one of them with the
\* empty text
C9_Witness ==
    /\ IsSome(compiler_input)
    /\ Len(request.content.sources) = MaxFiles
    /\ \E i \in 1..MaxFiles : request.content.sources[i][2] = ""
    /\ Len(Unwrap(compiler_input).sources) = MaxFiles

(***************************************************************************)
(* tests/server.rs: the server_start scenario.  run_http_server is outside *)
(* the files modelled here; the server below is what the test expects of   *)
(* it: a main listener with a health route whose requests are timed into a *)
(* histogram, and a metrics listener that renders the histogram.           *)
(***************************************************************************)

\* Bound on the number of requests the clients send
MaxRequests == 3

\* lines 6-8: the default settings with the two protocols switched as given
ServerSettingsWith(solidity, sourcify) ==
    [DefaultSettings EXCEPT !.solidity.enabled = solidity,
                            !.sourcify.enabled = sourcify]

\* lines 6-8: the settings of the test
TestSettings == ServerSettingsWith(FALSE, FALSE)

Methods == {"GET", "POST"}
RequestPaths == {"/health", "/metrics", "/missing"}

\* lines 9-10: the base addresses the test sends its requests to
Base(s) == s.server.addr
MetricsBase(s) == s.metrics.addr

ServerInit ==
    /\ SettingsIdle
    /\ FacadeIdle
    /\ srvSettings \in {Some(ServerSettingsWith(a, b)) : a, b \in BOOLEAN}
    /\ srvStatus = "down"
    /\ histogram = {}
    /\ responses = <<>>

\* lines 12-15: run_http_server(settings).  With solidity enabled the compiler
\* list has to be fetched first, which may fail; the two listeners need two
\* addresses.
ServerStart ==
    /\ srvStatus = "down"
    /\ \E fetched \in BOOLEAN :
          srvStatus' =
              IF Unwrap(srvSettings).server.addr = Unwrap(srvSettings).metrics.addr
              THEN "failed"
              ELSE IF Unwrap(srvSettings).solidity.enabled /\ ~fetched THEN "failed"
              ELSE "up"
    /\ UNCHANGED <<srvSettings, histogram, responses>>
    /\ UNCHANGED <<svars, fvars>>

\* The main listener's router: the health route answers GET
RouteStatus(method, path) ==
    IF path = "/health" /\ method = "GET" THEN 200 ELSE 404

\* The label set a served request is timed under
Labels(method, path, status) ==
    [endpoint |-> path, method |-> method, status |-> status]

\* The metrics middleware of the main listener without the health route
RecordedLabelsSkipHealth(method, path, status) ==
    IF path = "/health" THEN {} ELSE {Labels(method, path, status)}

\* The metrics middleware of the main listener: every request served is
\* timed into the histogram
RecordedLabels(method, path, status) == {Labels(method, path, status)}

\* A request to the main listener (lines 18-21 send GET /health)
MainRequest ==
    /\ Len(responses) < MaxRequests
    /\ \E method \in Methods, path \in RequestPaths :
          IF srvStatus = "up"
          THEN /\ histogram' = histogram
                      \cup RecordedLabels(method, path, RouteStatus(method, path))
               /\ responses' = Append(responses,
                      [addr |-> Base(Unwrap(srvSettings)), method |-> method,
                       path |-> path, status |-> RouteStatus(method, path),
                       body |-> {}])
          ELSE /\ responses' = Append(responses,
                      [addr |-> Base(Unwrap(srvSettings)), method |-> method,
                       path |-> path, status |-> 0, body |-> {}])
               /\ UNCHANGED histogram
    /\ UNCHANGED <<srvSettings, srvStatus>>
    /\ UNCHANGED <<svars, fvars>>

\* A request to the metrics listener (lines 23-28 send GET /metrics): the
\* configured endpoint answers with the histogram as it is
MetricsRequest ==
    /\ Len(responses) < MaxRequests
    /\ \E method \in Methods, path \in RequestPaths :
          responses' = Append(responses,
              [addr |-> MetricsBase(Unwrap(srvSettings)), method |-> method,
               path |-> path,
               status |-> IF srvStatus # "up" THEN 0
                          ELSE IF method = "GET"
                                  /\ path = Unwrap(srvSettings).metrics.endpoint
                          THEN 200 ELSE 404,
               body |-> IF srvStatus = "up" /\ method = "GET"
                           /\ path = Unwrap(srvSettings).metrics.endpoint
                        THEN histogram ELSE {}])
    /\ UNCHANGED <<srvSettings, srvStatus, histogram>>
    /\ UNCHANGED <<svars, fvars>>

ServerNext == ServerStart \/ MainRequest \/ MetricsRequest

SpecServer == ServerInit /\ [][ServerNext]_vars

(***************************************************************************)
(* Claim about the server, checked under SpecServer                        *)
(***************************************************************************)

\* Response i answers GET /health on the server address
IsHealth(i) ==
    /\ responses[i].addr = DefaultServerSettings.addr
    /\ responses[i].method = "GET"
    /\ responses[i].path = "/health"

\* Response i answers GET /metrics on the metrics address
IsMetrics(i) ==
    /\ responses[i].addr = DefaultMetricsSettings.addr
    /\ responses[i].method = "GET"
    /\ responses[i].path = "/metrics"

=============================================================================
